---------------------------- MODULE Spec2Model ----------------------------
(***************************************************************************)
(* Model of parking.py: the SQLite store (Vehicles, ParkingSlots,          *)
(* ParkingSessions), the two operator actions handle_entry and handle_exit *)
(* of ParkingSystemApp, the dashboard labels, and the wall clock read by   *)
(* datetime.datetime.now().  calls holds the local variables of the       *)
(* handler invocations that are under way when the handlers are followed   *)
(* statement by statement; it stays idle while they run to completion.     *)
(*                                                                         *)
(* Nullable columns (ExitTime, Fee) hold <<>> for NULL and <<v>> for v.    *)
(* A datetime is the record [sec, usec]; the clock of the model moves on a *)
(* grid of 0.3 s.  A fee is kept in cents (the REAL 12.34 is the integer   *)
(* 1234): round(x, 2) returns the double nearest to a whole number of      *)
(* cents, and distinct cent counts give distinct doubles.                  *)
(***************************************************************************)
EXTENDS Integers, Sequences, FiniteSets, TLC

VARIABLES Vehicles, ParkingSlots, ParkingSessions, slot_labels, now, outcome,
          calls

vars == <<Vehicles, ParkingSlots, ParkingSessions, slot_labels, now, outcome,
          calls>>

(***************************************************************************)
(* Configuration and bounds.                                               *)
(***************************************************************************)
\* the configured number of slots; parking.py sets 5, the lot here is smaller
TOTAL_SLOTS == 2

\* plates the recognition service can return: one more than there are slots,
\* so that a car can arrive at a full lot
NumPlates == 3

\* rows ParkingSessions may hold; a successful entry needs room for a row
MaxSessions == 3

\* the clock reads one of the instants 0..MaxTime, 0.3 s apart
MaxTime == 1

\* the upper-cased plate strings capture_and_recognize_plate can return
Plates == 1..NumPlates

NULL == <<>>

Some(v) == <<v>>

\* faulty variant: the row with the largest id comes first
Min_Largest(S) == CHOOSE x \in S : \A y \in S : x >= y

\* fetchone() on a query without ORDER BY: SQLite walks the table in rowid
\* order, so the first row is the one with the smallest id
Min(S) == CHOOSE x \in S : \A y \in S : x <= y

(***************************************************************************)
(* datetime: now(), isoformat(), fromisoformat(), subtraction.             *)
(***************************************************************************)
\* the reading of the wall clock when the clock stands at tick t
datetime_now(t) ==
    [sec |-> (t * 300000) \div 1000000, usec |-> (t * 300000) % 1000000]

\* "YYYY-MM-DDTHH:MM:SS", with ".ffffff" appended only when usec is not 0
isoformat(dt) ==
    IF dt.usec = 0 THEN <<dt.sec>> ELSE <<dt.sec, dt.usec>>

fromisoformat(str) ==
    IF Len(str) = 1 THEN [sec |-> str[1], usec |-> 0]
    ELSE [sec |-> str[1], usec |-> str[2]]

\* exit_time - entry_time as a normalised timedelta: seconds may be
\* negative, 0 <= microseconds < 10^6
timedelta_sub(a, b) ==
    IF a.usec >= b.usec
    THEN [seconds |-> a.sec - b.sec, microseconds |-> a.usec - b.usec]
    ELSE [seconds |-> a.sec - b.sec - 1,
          microseconds |-> a.usec + 1000000 - b.usec]

(***************************************************************************)
(* Python float arithmetic, as far as the fee needs it.  Whole numbers too *)
(* large for a machine integer are kept as sequences of base-1024 digits.  *)
(* Doubles beyond 2^53 cents, subnormals and infinities are out of reach   *)
(* of a parking fee and are not modelled.                                  *)
(***************************************************************************)
\* a natural number as its digits in base 1024, least significant first
RECURSIVE Limbs(_)
Limbs(n) == IF n = 0 THEN <<>> ELSE <<n % 1024>> \o Limbs(n \div 1024)

RECURSIVE TrimZeros(_)
TrimZeros(a) ==
    IF a = <<>> THEN <<>>
    ELSE IF a[Len(a)] # 0 THEN a
    ELSE TrimZeros(SubSeq(a, 1, Len(a) - 1))

Digit(a, i) == IF i \in 1..Len(a) THEN a[i] ELSE 0

RECURSIVE Carry(_, _, _)
\* the digits of the number whose columns (not yet reduced mod 1024) are
\* cols[i..], with carry c coming in
Carry(cols, i, c) ==
    IF i > Len(cols) THEN Limbs(c)
    ELSE <<(cols[i] + c) % 1024>> \o Carry(cols, i + 1, (cols[i] + c) \div 1024)

LAdd(a, b) ==
    LET n == IF Len(a) >= Len(b) THEN Len(a) ELSE Len(b)
    IN TrimZeros(Carry([i \in 1..n |-> Digit(a, i) + Digit(b, i)], 1, 0))

RECURSIVE Column(_, _, _, _)
\* sum of a[i] * b[k + 1 - i] for i in lo..Len(a)
Column(a, b, k, lo) ==
    IF lo > Len(a) THEN 0
    ELSE a[lo] * Digit(b, k + 1 - lo) + Column(a, b, k, lo + 1)

LMul(a, b) ==
    IF a = <<>> \/ b = <<>> THEN <<>>
    ELSE TrimZeros(Carry([k \in 1..(Len(a) + Len(b) - 1) |-> Column(a, b, k, 1)],
                         1, 0))

\* a * 1024^k
LShift(a, k) == IF a = <<>> THEN <<>> ELSE [i \in 1..k |-> 0] \o a

RECURSIVE LDivStep(_, _, _, _)
\* long division of num[1..i] (with r carried in from the digits above) by
\* the small number d: quotient digits and remainder
LDivStep(num, i, r, d) ==
    IF i = 0 THEN [q |-> <<>>, r |-> r]
    ELSE LET cur == r * 1024 + num[i]
             rec == LDivStep(num, i - 1, cur % d, d)
         IN [q |-> Append(rec.q, cur \div d), r |-> rec.r]

\* the binary digits of a, least significant first, without leading zeros
BitsOf(a) ==
    LET raw == [i \in 1..(10 * Len(a)) |->
                   (a[((i - 1) \div 10) + 1] \div (2 ^ ((i - 1) % 10))) % 2]
        ones == {i \in 1..(10 * Len(a)) : raw[i] = 1}
    IN IF ones = {} THEN <<>>
       ELSE SubSeq(raw, 1, CHOOSE i \in ones : \A j \in ones : j <= i)

RECURSIVE BitsToInt(_)
BitsToInt(b) == IF b = <<>> THEN 0 ELSE b[1] + 2 * BitsToInt(Tail(b))

\* bits b (at most 60 of them) as base-1024 digits
LimbsOfBits(b) ==
    LET bit(i) == IF i \in 1..Len(b) THEN b[i] ELSE 0
    IN TrimZeros([j \in 1..6 |->
                     BitsToInt([t \in 1..10 |-> bit(10 * (j - 1) + t)])])

\* b + 1 for a sequence of bits b
BitsInc(b) ==
    LET zeros == {i \in 1..Len(b) : b[i] = 0}
        p == IF zeros = {} THEN Len(b) + 1
             ELSE CHOOSE i \in zeros : \A j \in zeros : i <= j
    IN [i \in 1..(IF p > Len(b) THEN p ELSE Len(b)) |->
            IF i < p THEN 0 ELSE IF i = p THEN 1 ELSE b[i]]

(***************************************************************************)
(* An IEEE 754 double is [neg, m, e]: the value (-1)^neg * m * 2^e, with m *)
(* zero or a 53-bit number (base-1024 digits).                             *)
(***************************************************************************)
Zero == [neg |-> FALSE, m |-> <<>>, e |-> 0]

\* the double nearest to q * 2^e (q given by its bits; sticky says that a
\* nonzero amount below q's last bit was dropped), ties to even
RoundToDouble(neg, q, e, sticky) ==
    LET L == Len(q) IN
    IF L <= 53
    THEN [neg |-> neg, m |-> LimbsOfBits([i \in 1..(53 - L) |-> 0] \o q),
          e |-> e - (53 - L)]
    ELSE LET k == L - 53
             kept == SubSeq(q, k + 1, L)
             rest == sticky \/ \E i \in 1..(k - 1) : q[i] = 1
             up == q[k] = 1 /\ (rest \/ kept[1] = 1)
             m1 == IF up THEN BitsInc(kept) ELSE kept
         IN IF Len(m1) = 54
            THEN [neg |-> neg, m |-> LimbsOfBits(SubSeq(m1, 2, 54)), e |-> e + k + 1]
            ELSE [neg |-> neg, m |-> LimbsOfBits(m1), e |-> e + k]

\* float division n / d of two integers, correctly rounded
FloatDiv(neg, n, d) ==
    IF n = <<>> THEN Zero
    ELSE LET num == LShift(n, 8)
             qr == LDivStep(num, Len(num), 0, d)
         IN RoundToDouble(neg, BitsOf(qr.q), -80, qr.r # 0)

FloatMul(x, y) ==
    IF x.m = <<>> \/ y.m = <<>> THEN Zero
    ELSE RoundToDouble(x.neg # y.neg, BitsOf(LMul(x.m, y.m)), x.e + y.e, FALSE)

\* the literal 0.05: the double nearest to 5/100
COST_PER_SECOND == FloatDiv(FALSE, Limbs(5), 100)

\* timedelta.total_seconds(): (seconds * 10^6 + microseconds) / 10^6
total_seconds(td) ==
    IF td.seconds >= 0
    THEN FloatDiv(FALSE, LAdd(LMul(Limbs(td.seconds), Limbs(1000000)),
                              Limbs(td.microseconds)), 1000000)
    ELSE FloatDiv(TRUE, LAdd(LMul(Limbs(-td.seconds - 1), Limbs(1000000)),
                             Limbs(1000000 - td.microseconds)), 1000000)

\* round(y, 2), in cents: the whole number of cents nearest to the exact
\* value of the double y, ties to even
round2(y) ==
    IF y.m = <<>> THEN 0
    ELSE LET M == BitsOf(LMul(y.m, Limbs(100)))
             L == Len(M)
             k == -y.e
             int == IF k >= L THEN 0 ELSE BitsToInt(SubSeq(M, k + 1, L))
             guard == k \in 1..L /\ M[k] = 1
             rest == \E i \in 1..L : i < k /\ M[i] = 1
             up == guard /\ (rest \/ int % 2 = 1)
             c == IF up THEN int + 1 ELSE int
         IN IF y.neg THEN -c ELSE c

\* round(duration.total_seconds() * COST_PER_SECOND, 2), in cents
round_fee(duration) ==
    round2(FloatMul(total_seconds(duration), COST_PER_SECOND))

\* round_fee, evaluated once for every duration between two instants of the
\* model's clock
Durations ==
    {timedelta_sub(datetime_now(a), datetime_now(b)) : a, b \in 0..MaxTime}

FeeTable == {<<d, round_fee(d)>> : d \in Durations}

Fee(duration) == (CHOOSE p \in FeeTable : p[1] = duration)[2]

(***************************************************************************)
(* The store's statements.                                                 *)
(***************************************************************************)
\* faulty variant: the slot rows are inserted on every start
setup_database_AlwaysPopulate(slots) ==
    slots \o [i \in 1..TOTAL_SLOTS |-> "Available"]

\* setup_database: the slot rows are inserted only into an empty table
setup_database(slots) ==
    IF Len(slots) = 0 THEN [i \in 1..TOTAL_SLOTS |-> "Available"] ELSE slots

\* faulty variant: the query filters on the wrong status
SelectActiveSessions_WrongStatus(vehicles, sessions, plate_number) ==
    {i \in 1..Len(sessions) :
        /\ sessions[i].Status = "Completed"
        /\ sessions[i].VehicleID \in 1..Len(vehicles)
        /\ vehicles[sessions[i].VehicleID] = plate_number}

\* faulty variant: the query does not filter on the status
SelectActiveSessions_AnyStatus(vehicles, sessions, plate_number) ==
    {i \in 1..Len(sessions) :
        /\ sessions[i].VehicleID \in 1..Len(vehicles)
        /\ vehicles[sessions[i].VehicleID] = plate_number}

\* SELECT s.SessionID ... WHERE v.PlateNumber = ? AND s.Status = 'Active'
SelectActiveSessions(vehicles, sessions, plate_number) ==
    {i \in 1..Len(sessions) :
        /\ sessions[i].Status = "Active"
        /\ sessions[i].VehicleID \in 1..Len(vehicles)
        /\ vehicles[sessions[i].VehicleID] = plate_number}

\* faulty variant: the WHERE clause is missing
SelectAvailableSlots_AnyStatus(slots) == 1..Len(slots)

\* SELECT SlotID FROM ParkingSlots WHERE Status = 'Available'
SelectAvailableSlots(slots) ==
    {i \in 1..Len(slots) : slots[i] = "Available"}

\* SELECT VehicleID FROM Vehicles WHERE PlateNumber = ?
SelectVehicle(vehicles, plate_number) ==
    {i \in 1..Len(vehicles) : vehicles[i] = plate_number}

\* INSERT INTO ParkingSessions (VehicleID, SlotID, EntryTime): the other
\* columns take their defaults
NewSession(vehicle_id, slot_id, entry_time) ==
    [VehicleID |-> vehicle_id, SlotID |-> slot_id, EntryTime |-> entry_time,
     ExitTime |-> NULL, Status |-> "Active", Fee |-> NULL]

\* faulty variant: the update is lost
UpdateSlotStatus_NoOp(slots, slot_id, status) == slots

\* faulty variant: the WHERE clause is missing
UpdateSlotStatus_NoWhere(slots, slot_id, status) ==
    [i \in 1..Len(slots) |-> status]

\* UPDATE ParkingSlots SET Status = ? WHERE SlotID = ?
UpdateSlotStatus(slots, slot_id, status) ==
    [i \in 1..Len(slots) |-> IF i = slot_id THEN status ELSE slots[i]]

\* faulty variant: the WHERE clause is missing
CompleteSession_NoWhere(sessions, session_id, exit_time_iso, fee) ==
    [i \in 1..Len(sessions) |->
        [sessions[i] EXCEPT !.ExitTime = Some(exit_time_iso),
                            !.Status = "Completed",
                            !.Fee = Some(fee)]]

\* faulty variant: the row is deleted instead of being updated
CompleteSession_Deletes(sessions, session_id, exit_time_iso, fee) ==
    [i \in 1..(Len(sessions) - 1) |->
        IF i < session_id THEN sessions[i] ELSE sessions[i + 1]]

\* UPDATE ParkingSessions SET ExitTime = ?, Status = 'Completed', Fee = ?
\* WHERE SessionID = ?
CompleteSession(sessions, session_id, exit_time_iso, fee) ==
    [i \in 1..Len(sessions) |->
        IF i = session_id
        THEN [sessions[i] EXCEPT !.ExitTime = Some(exit_time_iso),
                                 !.Status = "Completed",
                                 !.Fee = Some(fee)]
        ELSE sessions[i]]

\* faulty variant: the labels are not refreshed
update_dashboard_Stale(labels, slots) == labels

\* update_dashboard: every slot's label is set from its row
update_dashboard(labels, slots) ==
    [i \in DOMAIN labels |-> IF i \in 1..Len(slots) THEN slots[i] ELSE labels[i]]

\* what the operator saw of the last operation: the handler, the plate read
\* (0 when none was) and the message box that ended it
Outcome(op, plate, msg) ==
    [op |-> op, plate |-> plate, msg |-> msg]

\* the terminals on which a handler can be under way
Handlers == {"A", "B"}

\* the local variables of a handler invocation; pc names the statement it
\* executes next
Call(pc, op, plate_number, slot_id, vehicle_id, session_id, exit_time, fee) ==
    [pc |-> pc, op |-> op, plate_number |-> plate_number, slot_id |-> slot_id,
     vehicle_id |-> vehicle_id, session_id |-> session_id,
     exit_time |-> exit_time, fee |-> fee]

Idle == Call("idle", "none", 0, 0, 0, 0, NULL, NULL)

(***************************************************************************)
(* Initial state: setup_database() on a new database file, then            *)
(* ParkingSystemApp.__init__.                                              *)
(***************************************************************************)
Init ==
    /\ Vehicles = <<>>
    /\ ParkingSessions = <<>>
    /\ ParkingSlots = setup_database(<<>>)
    /\ slot_labels = update_dashboard([i \in 1..TOTAL_SLOTS |-> "Available"],
                                      setup_database(<<>>))
    /\ now \in 0..MaxTime
    /\ outcome = Outcome("init", 0, "none")
    /\ calls = [h \in Handlers |-> Idle]

(***************************************************************************)
(* handle_entry, run to completion.                                        *)
(***************************************************************************)
EntryNoPlate ==
    /\ outcome' = Outcome("entry", 0, "NoPlate")
    /\ UNCHANGED <<Vehicles, ParkingSlots, ParkingSessions, slot_labels, now, calls>>

\* the return taken when the plate has an Active session
EntryAlreadyParked(plate_number) ==
    /\ outcome' = Outcome("entry", plate_number, "AlreadyParked")
    /\ UNCHANGED <<Vehicles, ParkingSlots, ParkingSessions, slot_labels, now, calls>>

\* faulty variant: the car is admitted to a full lot, on the first slot
EntryLotFull_Admits(plate_number) ==
    /\ Len(ParkingSessions) < MaxSessions
    /\ ParkingSessions' =
            Append(ParkingSessions,
                   NewSession(1, 1, isoformat(datetime_now(now))))
    /\ outcome' = Outcome("entry", plate_number, "Welcome")
    /\ UNCHANGED <<Vehicles, ParkingSlots, slot_labels, now, calls>>

\* the return taken when no slot is Available
EntryLotFull(plate_number) ==
    /\ outcome' = Outcome("entry", plate_number, "LotFull")
    /\ UNCHANGED <<Vehicles, ParkingSlots, ParkingSessions, slot_labels, now, calls>>

handle_entry(plate_number) ==
    LET active_session ==
            SelectActiveSessions(Vehicles, ParkingSessions, plate_number)
        available_slot == SelectAvailableSlots(ParkingSlots)
    IN
    IF active_session # {}
    THEN EntryAlreadyParked(plate_number)
    ELSE IF available_slot = {}
    THEN EntryLotFull(plate_number)
    ELSE LET slot_id == Min(available_slot)
             vehicle == SelectVehicle(Vehicles, plate_number)
             vehicle_id == IF vehicle # {} THEN Min(vehicle)
                           ELSE Len(Vehicles) + 1
             entry_time == isoformat(datetime_now(now))
         IN
         /\ Len(ParkingSessions) < MaxSessions
         /\ Vehicles' = IF vehicle # {} THEN Vehicles
                        ELSE Append(Vehicles, plate_number)
         /\ ParkingSessions' =
                Append(ParkingSessions, NewSession(vehicle_id, slot_id, entry_time))
         /\ ParkingSlots' = UpdateSlotStatus(ParkingSlots, slot_id, "Occupied")
         /\ slot_labels' = update_dashboard(slot_labels, ParkingSlots')
         /\ outcome' = Outcome("entry", plate_number, "Welcome")
         /\ UNCHANGED <<now, calls>>

(***************************************************************************)
(* handle_exit, run to completion; payment_confirmed is the answer to the  *)
(* "Payment Due" dialog.                                                   *)
(***************************************************************************)
ExitNoPlate ==
    /\ outcome' = Outcome("exit", 0, "NoPlate")
    /\ UNCHANGED <<Vehicles, ParkingSlots, ParkingSessions, slot_labels, now, calls>>

\* faulty variant: the slot is not released
ExitCommit_KeepsSlot(plate_number, session_id, slot_id, exit_time, fee) ==
    /\ ParkingSessions' =
            CompleteSession(ParkingSessions, session_id, isoformat(exit_time), fee)
    /\ slot_labels' = update_dashboard(slot_labels, ParkingSlots)
    /\ outcome' = Outcome("exit", plate_number, "PaymentConfirmed")
    /\ UNCHANGED <<Vehicles, ParkingSlots, now, calls>>

\* the branch taken when the operator answers Yes
ExitCommit(plate_number, session_id, slot_id, exit_time, fee) ==
    /\ ParkingSessions' =
            CompleteSession(ParkingSessions, session_id, isoformat(exit_time), fee)
    /\ ParkingSlots' = UpdateSlotStatus(ParkingSlots, slot_id, "Available")
    /\ slot_labels' = update_dashboard(slot_labels, ParkingSlots')
    /\ outcome' = Outcome("exit", plate_number, "PaymentConfirmed")
    /\ UNCHANGED <<Vehicles, now, calls>>

\* faulty variant: the slot is released although the payment was declined
ExitCancel_FreesSlot(plate_number, session_id, slot_id) ==
    /\ ParkingSlots' = UpdateSlotStatus(ParkingSlots, slot_id, "Available")
    /\ slot_labels' = update_dashboard(slot_labels, ParkingSlots')
    /\ outcome' = Outcome("exit", plate_number, "PaymentCancelled")
    /\ UNCHANGED <<Vehicles, ParkingSessions, now, calls>>

\* the branch taken when the operator answers No
ExitCancel(plate_number, session_id, slot_id) ==
    /\ outcome' = Outcome("exit", plate_number, "PaymentCancelled")
    /\ UNCHANGED <<Vehicles, ParkingSlots, ParkingSessions, slot_labels, now, calls>>

handle_exit(plate_number, payment_confirmed) ==
    LET session_data ==
            SelectActiveSessions(Vehicles, ParkingSessions, plate_number)
    IN
    IF session_data = {}
    THEN /\ outcome' = Outcome("exit", plate_number, "NoActiveSession")
         /\ UNCHANGED <<Vehicles, ParkingSlots, ParkingSessions, slot_labels, now, calls>>
    ELSE LET session_id == Min(session_data)
             slot_id == ParkingSessions[session_id].SlotID
             entry_time == fromisoformat(ParkingSessions[session_id].EntryTime)
             exit_time == datetime_now(now)
             duration == timedelta_sub(exit_time, entry_time)
             fee == Fee(duration)
         IN
         IF payment_confirmed
         THEN ExitCommit(plate_number, session_id, slot_id, exit_time, fee)
         ELSE ExitCancel(plate_number, session_id, slot_id)

(***************************************************************************)
(* The process is stopped and started again: setup_database() finds the    *)
(* tables of the last run, __init__ builds the labels and refreshes them.  *)
(***************************************************************************)
Restart ==
    /\ ParkingSlots' = setup_database(ParkingSlots)
    /\ slot_labels' = update_dashboard([i \in 1..TOTAL_SLOTS |-> "Available"],
                                       ParkingSlots')
    /\ outcome' = Outcome("init", 0, "none")
    /\ UNCHANGED <<Vehicles, ParkingSessions, now, calls>>

(***************************************************************************)
(* The wall clock: it advances, and (datetime.now() being local time) it   *)
(* can be set back.                                                        *)
(***************************************************************************)
Tick ==
    /\ \E t \in 0..MaxTime : t > now /\ now' = t
    /\ UNCHANGED <<Vehicles, ParkingSlots, ParkingSessions, slot_labels, outcome,
                 calls>>

ClockSetBack ==
    /\ \E t \in 0..MaxTime : t < now /\ now' = t
    /\ UNCHANGED <<Vehicles, ParkingSlots, ParkingSessions, slot_labels, outcome,
                 calls>>

Entry == \E plate_number \in Plates : handle_entry(plate_number)

Exit == \E plate_number \in Plates, payment_confirmed \in BOOLEAN :
            handle_exit(plate_number, payment_confirmed)

Next ==
    \/ EntryNoPlate
    \/ Entry
    \/ ExitNoPlate
    \/ Exit
    \/ Restart
    \/ Tick
    \/ ClockSetBack

Spec == Init /\ [][Next]_vars

(***************************************************************************)
(* The handlers statement by statement.  execute_query opens a connection, *)
(* runs one statement, commits it and closes the connection, so every      *)
(* statement is a step of its own and nothing ties the statements of one   *)
(* handler together.  calls[h] holds the local variables of the handler    *)
(* that is under way on terminal h.                                        *)
(***************************************************************************)
SetCall(h, c) == calls' = [calls EXCEPT ![h] = c]

\* capture_and_recognize_plate, then the already-parked check
StartEntry(h, plate_number) ==
    LET active_session ==
            SelectActiveSessions(Vehicles, ParkingSessions, plate_number)
    IN
    /\ calls[h].pc = "idle"
    /\ IF active_session # {}
       THEN /\ outcome' = Outcome("entry", plate_number, "AlreadyParked")
            /\ UNCHANGED calls
       ELSE /\ SetCall(h, [Idle EXCEPT !.pc = "find_slot", !.op = "entry",
                                       !.plate_number = plate_number])
            /\ UNCHANGED outcome
    /\ UNCHANGED <<Vehicles, ParkingSlots, ParkingSessions, slot_labels, now>>

\* SELECT SlotID FROM ParkingSlots WHERE Status = 'Available' LIMIT 1
EntryFindSlot(h) ==
    LET available_slot == SelectAvailableSlots(ParkingSlots) IN
    /\ calls[h].pc = "find_slot"
    /\ IF available_slot = {}
       THEN /\ outcome' = Outcome("entry", calls[h].plate_number, "LotFull")
            /\ SetCall(h, Idle)
       ELSE /\ SetCall(h, [calls[h] EXCEPT !.pc = "select_vehicle",
                                           !.slot_id = Min(available_slot)])
            /\ UNCHANGED outcome
    /\ UNCHANGED <<Vehicles, ParkingSlots, ParkingSessions, slot_labels, now>>

\* SELECT VehicleID FROM Vehicles WHERE PlateNumber = ?
EntrySelectVehicle(h) ==
    LET vehicle == SelectVehicle(Vehicles, calls[h].plate_number) IN
    /\ calls[h].pc = "select_vehicle"
    /\ IF vehicle # {}
       THEN SetCall(h, [calls[h] EXCEPT !.pc = "insert_session",
                                       !.vehicle_id = Min(vehicle)])
       ELSE SetCall(h, [calls[h] EXCEPT !.pc = "insert_vehicle"])
    /\ UNCHANGED <<Vehicles, ParkingSlots, ParkingSessions, slot_labels, now,
                   outcome>>

\* INSERT INTO Vehicles (PlateNumber): PlateNumber is UNIQUE, so the insert
\* raises sqlite3.IntegrityError when the plate has got a row since the
\* SELECT, and the exception ends the handler
EntryInsertVehicle(h) ==
    /\ calls[h].pc = "insert_vehicle"
    /\ IF SelectVehicle(Vehicles, calls[h].plate_number) # {}
       THEN /\ outcome' = Outcome("entry", calls[h].plate_number,
                                  "IntegrityError")
            /\ SetCall(h, Idle)
            /\ UNCHANGED Vehicles
       ELSE /\ Vehicles' = Append(Vehicles, calls[h].plate_number)
            /\ SetCall(h, [calls[h] EXCEPT !.pc = "insert_session",
                                           !.vehicle_id = Len(Vehicles) + 1])
            /\ UNCHANGED outcome
    /\ UNCHANGED <<ParkingSlots, ParkingSessions, slot_labels, now>>

\* faulty variant: the insert is given up when a session already holds
\* the slot
EntryInsertSession_LooksAgain(h) ==
    /\ calls[h].pc = "insert_session"
    /\ Len(ParkingSessions) < MaxSessions
    /\ IF \E i \in 1..Len(ParkingSessions) :
              /\ ParkingSessions[i].SlotID = calls[h].slot_id
              /\ ParkingSessions[i].Status = "Active"
       THEN /\ SetCall(h, Idle)
            /\ UNCHANGED ParkingSessions
       ELSE /\ ParkingSessions' =
                   Append(ParkingSessions,
                          NewSession(calls[h].vehicle_id, calls[h].slot_id,
                                     isoformat(datetime_now(now))))
            /\ SetCall(h, [calls[h] EXCEPT !.pc = "update_slot",
                                           !.session_id = Len(ParkingSessions) + 1])
    /\ UNCHANGED <<Vehicles, ParkingSlots, slot_labels, now, outcome>>

\* faulty variant: the insert is given up when the vehicle already has an
\* Active session
EntryInsertSession_ChecksVehicle(h) ==
    /\ calls[h].pc = "insert_session"
    /\ Len(ParkingSessions) < MaxSessions
    /\ IF \E i \in 1..Len(ParkingSessions) :
              /\ ParkingSessions[i].VehicleID = calls[h].vehicle_id
              /\ ParkingSessions[i].Status = "Active"
       THEN /\ SetCall(h, Idle)
            /\ UNCHANGED ParkingSessions
       ELSE /\ ParkingSessions' =
                   Append(ParkingSessions,
                          NewSession(calls[h].vehicle_id, calls[h].slot_id,
                                     isoformat(datetime_now(now))))
            /\ SetCall(h, [calls[h] EXCEPT !.pc = "update_slot",
                                           !.session_id = Len(ParkingSessions) + 1])
    /\ UNCHANGED <<Vehicles, ParkingSlots, slot_labels, now, outcome>>

\* INSERT INTO ParkingSessions (VehicleID, SlotID, EntryTime)
EntryInsertSession(h) ==
    /\ calls[h].pc = "insert_session"
    /\ Len(ParkingSessions) < MaxSessions
    /\ ParkingSessions' =
            Append(ParkingSessions,
                   NewSession(calls[h].vehicle_id, calls[h].slot_id,
                              isoformat(datetime_now(now))))
    /\ SetCall(h, [calls[h] EXCEPT !.pc = "update_slot",
                                   !.session_id = Len(ParkingSessions) + 1])
    /\ UNCHANGED <<Vehicles, ParkingSlots, slot_labels, now, outcome>>

\* UPDATE ParkingSlots SET Status = 'Occupied' WHERE SlotID = ?
EntryUpdateSlot(h) ==
    /\ calls[h].pc = "update_slot"
    /\ calls[h].op = "entry"
    /\ ParkingSlots' = UpdateSlotStatus(ParkingSlots, calls[h].slot_id,
                                        "Occupied")
    /\ SetCall(h, [calls[h] EXCEPT !.pc = "refresh"])
    /\ UNCHANGED <<Vehicles, ParkingSessions, slot_labels, now, outcome>>

\* capture_and_recognize_plate, the SELECT of the plate's Active session,
\* and the fee computed from its entry time and datetime.now(); the
\* handler then waits in the "Payment Due" dialog
StartExit(h, plate_number) ==
    LET session_data ==
            SelectActiveSessions(Vehicles, ParkingSessions, plate_number)
    IN
    /\ calls[h].pc = "idle"
    /\ IF session_data = {}
       THEN /\ outcome' = Outcome("exit", plate_number, "NoActiveSession")
            /\ UNCHANGED calls
       ELSE LET session_id == Min(session_data)
                entry_time ==
                    fromisoformat(ParkingSessions[session_id].EntryTime)
                exit_time == datetime_now(now)
                duration == timedelta_sub(exit_time, entry_time)
            IN
            /\ SetCall(h, Call("dialog", "exit", plate_number,
                               ParkingSessions[session_id].SlotID, 0,
                               session_id, Some(exit_time),
                               Some(Fee(duration))))
            /\ UNCHANGED outcome
    /\ UNCHANGED <<Vehicles, ParkingSlots, ParkingSessions, slot_labels, now>>

\* the operator answers No
ExitDecline(h) ==
    /\ calls[h].pc = "dialog"
    /\ outcome' = Outcome("exit", calls[h].plate_number, "PaymentCancelled")
    /\ SetCall(h, Idle)
    /\ UNCHANGED <<Vehicles, ParkingSlots, ParkingSessions, slot_labels, now>>

\* faulty variant: the exit time is read again after the dialog
ExitConfirm_ReadsClockAgain(h) ==
    /\ calls[h].pc = "dialog"
    /\ ParkingSessions' =
            CompleteSession(ParkingSessions, calls[h].session_id,
                            isoformat(datetime_now(now)), calls[h].fee[1])
    /\ SetCall(h, [calls[h] EXCEPT !.pc = "update_slot"])
    /\ UNCHANGED <<Vehicles, ParkingSlots, slot_labels, now, outcome>>

\* the operator answers Yes: UPDATE ParkingSessions SET ExitTime = ?,
\* Status = 'Completed', Fee = ? WHERE SessionID = ?
ExitConfirm(h) ==
    /\ calls[h].pc = "dialog"
    /\ ParkingSessions' =
            CompleteSession(ParkingSessions, calls[h].session_id,
                            isoformat(calls[h].exit_time[1]), calls[h].fee[1])
    /\ SetCall(h, [calls[h] EXCEPT !.pc = "update_slot"])
    /\ UNCHANGED <<Vehicles, ParkingSlots, slot_labels, now, outcome>>

\* UPDATE ParkingSlots SET Status = 'Available' WHERE SlotID = ?
ExitUpdateSlot(h) ==
    /\ calls[h].pc = "update_slot"
    /\ calls[h].op = "exit"
    /\ ParkingSlots' = UpdateSlotStatus(ParkingSlots, calls[h].slot_id,
                                        "Available")
    /\ SetCall(h, [calls[h] EXCEPT !.pc = "refresh"])
    /\ UNCHANGED <<Vehicles, ParkingSessions, slot_labels, now, outcome>>

\* the closing message box and update_dashboard
Finish(h) ==
    /\ calls[h].pc = "refresh"
    /\ slot_labels' = update_dashboard(slot_labels, ParkingSlots)
    /\ outcome' = Outcome(calls[h].op, calls[h].plate_number,
                          IF calls[h].op = "entry" THEN "Welcome"
                          ELSE "PaymentConfirmed")
    /\ SetCall(h, Idle)
    /\ UNCHANGED <<Vehicles, ParkingSlots, ParkingSessions, now>>

\* the process on terminal h is stopped while its handler is between two
\* statements: what the handler has committed stays, the rest of it never
\* runs
Crash(h) ==
    /\ calls[h].pc \notin {"idle", "dialog"}
    /\ outcome' = Outcome(calls[h].op, calls[h].plate_number, "Crashed")
    /\ SetCall(h, Idle)
    /\ UNCHANGED <<Vehicles, ParkingSlots, ParkingSessions, slot_labels, now>>

\* the process is stopped in a confirmed exit between the UPDATE of the
\* session and the UPDATE of the slot
ExitInterrupted(h) ==
    /\ calls[h].op = "exit"
    /\ calls[h].pc = "update_slot"
    /\ Crash(h)

EntryStep(h) ==
    \/ \E plate_number \in Plates : StartEntry(h, plate_number)
    \/ EntryFindSlot(h)
    \/ EntrySelectVehicle(h)
    \/ EntryInsertVehicle(h)
    \/ EntryInsertSession(h)
    \/ EntryUpdateSlot(h)

ExitStep(h) ==
    \/ \E plate_number \in Plates : StartExit(h, plate_number)
    \/ ExitDecline(h)
    \/ ExitConfirm(h)
    \/ ExitUpdateSlot(h)

\* two terminals on one database file, the clock standing still: the
\* handlers of terminal A run to completion, any number of them between
\* two statements of the entry that is under way on terminal B
InitInterleaved == Init /\ now = 0

NextInterleaved ==
    \/ Entry
    \/ Exit
    \/ EntryStep("B")
    \/ Finish("B")

SpecInterleaved == InitInterleaved /\ [][NextInterleaved]_vars

\* entries only, on the same two terminals, where the process of terminal
\* B can be stopped between two statements of its entry
NextEntryRace ==
    \/ Entry
    \/ EntryStep("B")
    \/ Finish("B")
    \/ Crash("B")

SpecEntryRace == InitInterleaved /\ [][NextEntryRace]_vars

\* one terminal whose process can be stopped between the two updates of a
\* confirmed exit and then goes on with further entries and exits
NextCrash ==
    \/ EntryStep("A")
    \/ ExitStep("A")
    \/ Finish("A")
    \/ ExitInterrupted("A")

SpecCrash == InitInterleaved /\ [][NextCrash]_vars

\* one terminal, with a clock that only moves forward and can do so
\* while the "Payment Due" dialog is open
NextDialog ==
    \/ EntryStep("A")
    \/ ExitStep("A")
    \/ Finish("A")
    \/ Tick

SpecDialog == Init /\ [][NextDialog]_vars

(***************************************************************************)
(* Vocabulary of the properties.                                           *)
(***************************************************************************)
Sessions == 1..Len(ParkingSessions)

Slots == 1..Len(ParkingSlots)

PlateOf(i) == Vehicles[ParkingSessions[i].VehicleID]

\* the Active sessions of a plate, and the Active sessions on a slot
ActiveOfPlate(p) ==
    {i \in Sessions : ParkingSessions[i].Status = "Active" /\ PlateOf(i) = p}

CompletedOfPlate(p) ==
    {i \in Sessions : ParkingSessions[i].Status = "Completed" /\ PlateOf(i) = p}

ActiveOnSlot(s) ==
    {i \in Sessions : ParkingSessions[i].Status = "Active"
                      /\ ParkingSessions[i].SlotID = s}

CompletedOnSlot(s) ==
    {i \in Sessions : ParkingSessions[i].Status = "Completed"
                      /\ ParkingSessions[i].SlotID = s}

AllOccupied == \A s \in Slots : ParkingSlots[s] = "Occupied"

StoreUnchanged == UNCHANGED <<Vehicles, ParkingSlots, ParkingSessions>>

AskedPayment(o) == o.msg \in {"PaymentConfirmed", "PaymentCancelled"}

\* C1: after any sequence of completed entry and exit operations every plate
\* has at most one session with status Active.
C1_AtMostOneActivePerPlate ==
    \A p \in Plates : Cardinality(ActiveOfPlate(p)) <= 1

\* a plate that left and came back was refused a second entry
C1_Witness ==
    \E p \in Plates :
        /\ outcome = Outcome("entry", p, "AlreadyParked")
        /\ Cardinality(ActiveOfPlate(p)) = 1
        /\ CompletedOfPlate(p) # {}

\* C2: a slot is Occupied iff exactly one Active session references it, and
\* an Available slot is referenced by no Active session.
C2_OccupiedIffOneActive ==
    \A s \in Slots :
        /\ ParkingSlots[s] = "Occupied" <=> Cardinality(ActiveOnSlot(s)) = 1
        /\ ParkingSlots[s] = "Available" => ActiveOnSlot(s) = {}

\* one slot is in use and another was used and released
C2_Witness ==
    \E s, t \in Slots :
        /\ ParkingSlots[s] = "Occupied" /\ Cardinality(ActiveOnSlot(s)) = 1
        /\ ParkingSlots[t] = "Available" /\ CompletedOnSlot(t) # {}

\* C3 as stated: every entry with a recognized plate made while all N slots
\* are Occupied fails with LotFull.
C3_FullLotAlwaysLotFull ==
    [][\A p \in Plates :
          (AllOccupied /\ handle_entry(p)) => outcome'.msg = "LotFull"]_vars

\* C3 as amended: an entry made while all N slots are Occupied fails and
\* leaves the store as it was; it fails with LotFull when the plate has no
\* Active session and with AlreadyParked when it has one.
C3_FullLotRejectsEntry ==
    [][\A p \in Plates :
          (AllOccupied /\ handle_entry(p)) =>
              /\ StoreUnchanged
              /\ ActiveOfPlate(p) = {} => outcome'.msg = "LotFull"
              /\ ActiveOfPlate(p) # {} => outcome'.msg = "AlreadyParked"]_vars

\* a plate that is not parked was turned away from a full lot
C3_Witness ==
    \E p \in Plates :
        /\ outcome = Outcome("entry", p, "LotFull")
        /\ AllOccupied
        /\ ActiveOfPlate(p) = {}

\* C4: an entry for a plate that has an Active session is rejected with
\* AlreadyParked and adds no session, changes no slot and adds no vehicle.
C4_AlreadyParkedChangesNothing ==
    [][\A p \in Plates :
          (ActiveOfPlate(p) # {} /\ handle_entry(p)) =>
              /\ outcome'.msg = "AlreadyParked"
              /\ ParkingSessions' = ParkingSessions
              /\ ParkingSlots' = ParkingSlots
              /\ Vehicles' = Vehicles]_vars

\* a parked plate was refused while a slot was still Available
C4_Witness ==
    \E p \in Plates :
        /\ outcome = Outcome("entry", p, "AlreadyParked")
        /\ ActiveOfPlate(p) # {}
        /\ ~AllOccupied

\* the row of the one Active session of plate p is as an entry left it and
\* its slot is Occupied
StillParked(p, sessions, slots) ==
    \E i \in 1..Len(sessions) :
        /\ ActiveOfPlate(p) = {i}
        /\ sessions[i].Status = "Active"
        /\ sessions[i].ExitTime = NULL
        /\ sessions[i].Fee = NULL
        /\ slots[sessions[i].SlotID] = "Occupied"

\* C5: an exit whose payment is declined changes nothing in the store: the
\* session stays Active with null exit time and fee, its slot stays Occupied;
\* the next exit for that plate finds the same session and, when confirmed,
\* completes it and releases its slot.
C5_DeclinedExitChangesNothing ==
    [][\A p \in Plates :
          /\ (ActiveOfPlate(p) # {} /\ handle_exit(p, FALSE)) =>
                /\ outcome' = Outcome("exit", p, "PaymentCancelled")
                /\ StoreUnchanged
                /\ StillParked(p, ParkingSessions', ParkingSlots')
          /\ (outcome = Outcome("exit", p, "PaymentCancelled")
                /\ handle_exit(p, TRUE)) =>
                \E i \in ActiveOfPlate(p) :
                    /\ StillParked(p, ParkingSessions, ParkingSlots)
                    /\ ParkingSessions'[i].Status = "Completed"
                    /\ ParkingSlots'[ParkingSessions[i].SlotID] = "Available"
                    /\ outcome' = Outcome("exit", p, "PaymentConfirmed")]_vars

\* a payment was declined and the car is still parked
C5_Witness ==
    \E p \in Plates :
        /\ outcome = Outcome("exit", p, "PaymentCancelled")
        /\ StillParked(p, ParkingSessions, ParkingSlots)

\* C6: an exit for a plate with no Active session (never seen, or with
\* Completed sessions only) fails with NoActiveSession, leaves vehicles,
\* sessions and slots unchanged and never asks for payment.
C6_NoActiveSessionChangesNothing ==
    [][\A p \in Plates, c \in BOOLEAN :
          (ActiveOfPlate(p) = {} /\ handle_exit(p, c)) =>
              /\ outcome' = Outcome("exit", p, "NoActiveSession")
              /\ ~AskedPayment(outcome')
              /\ StoreUnchanged]_vars

\* an exit was refused for a plate whose sessions are all Completed, while a
\* plate never seen is also on record as unknown
C6_Witness ==
    \E p \in Plates :
        /\ outcome = Outcome("exit", p, "NoActiveSession")
        /\ ActiveOfPlate(p) = {}
        /\ CompletedOfPlate(p) # {}
        /\ \E q \in Plates : SelectVehicle(Vehicles, q) = {}

\* microseconds from the stored entry time to the stored exit time of the
\* Completed session i
ElapsedMicros(i) ==
    LET en == fromisoformat(ParkingSessions[i].EntryTime)
        ex == fromisoformat(ParkingSessions[i].ExitTime[1])
    IN (ex.sec - en.sec) * 1000000 + (ex.usec - en.usec)

\* n microseconds at 0.05 per second are n / 200000 cents; rounded half-up
HalfUpCents(n) == (n + 100000) \div 200000

Completed == {i \in Sessions : ParkingSessions[i].Status = "Completed"}

\* C7: the fee charged at exit equals the elapsed seconds times the rate of
\* 0.05 per second, rounded half-up to 2 decimal places.
C7_FeeIsHalfUpRounded ==
    \A i \in Completed :
        ParkingSessions[i].Fee = Some(HalfUpCents(ElapsedMicros(i)))

\* C8: every Completed session has a non-null exit time and a non-null fee
\* that is >= 0; every Active session has null exit time and null fee.
C8_CompletedHasExitAndFee ==
    \A i \in Sessions :
        IF ParkingSessions[i].Status = "Completed"
        THEN /\ ParkingSessions[i].ExitTime # NULL
             /\ ParkingSessions[i].Fee # NULL
             /\ ParkingSessions[i].Fee[1] >= 0
        ELSE /\ ParkingSessions[i].ExitTime = NULL
             /\ ParkingSessions[i].Fee = NULL

\* C9: after any sequence of entry and exit operations the status shown on
\* the dashboard for each slot is the slot's status in the store.
C9_DashboardShowsStore ==
    /\ DOMAIN slot_labels = 1..TOTAL_SLOTS
    /\ \A s \in Slots : slot_labels[s] = ParkingSlots[s]

\* the dashboard shows a slot taken and a slot released by a confirmed exit
C9_Witness ==
    /\ outcome.msg = "PaymentConfirmed"
    /\ \E s, t \in Slots :
        /\ slot_labels[s] = "Occupied" /\ ActiveOnSlot(s) # {}
        /\ slot_labels[t] = "Available" /\ CompletedOnSlot(t) # {}

OccupiedSlots(slots) == {s \in 1..Len(slots) : slots[s] = "Occupied"}

\* C10: the slot pool has the configured count N and is never resized:
\* initialization on a populated store adds no slot and resets no status, no
\* entry or exit adds or removes a slot, and at most N slots are Occupied.
C10_SlotPoolIsFixed ==
    [][/\ Len(ParkingSlots) = TOTAL_SLOTS
       /\ Len(ParkingSlots') = TOTAL_SLOTS
       /\ Cardinality(OccupiedSlots(ParkingSlots)) <= TOTAL_SLOTS
       /\ Cardinality(OccupiedSlots(ParkingSlots')) <= TOTAL_SLOTS
       /\ Restart => ParkingSlots' = ParkingSlots]_vars

\* the application was started again on a store with every slot Occupied
C10_Witness ==
    /\ outcome = Outcome("init", 0, "none")
    /\ Cardinality(OccupiedSlots(ParkingSlots)) = TOTAL_SLOTS
    /\ Len(ParkingSlots) = TOTAL_SLOTS

\* the vehicle rows that hold plate p
VehiclesOfPlate(p) == {v \in 1..Len(Vehicles) : Vehicles[v] = p}

\* C11: vehicle and session rows are never deleted and plates are unique.
\* Every step keeps each Vehicles row as it is and each session row in
\* place with its vehicle, slot and entry time; no plate ever has two
\* Vehicles rows; and an entry of a plate that has a Completed session and
\* no Active one adds no Vehicles row, keeps every earlier session as it is
\* and appends one session that carries the plate's existing VehicleID.
C11_RecordsOnlyGrow ==
    [][/\ Len(Vehicles') >= Len(Vehicles)
       /\ \A v \in 1..Len(Vehicles) : Vehicles'[v] = Vehicles[v]
       /\ Len(ParkingSessions') >= Len(ParkingSessions)
       /\ \A i \in Sessions :
             /\ ParkingSessions'[i].VehicleID = ParkingSessions[i].VehicleID
             /\ ParkingSessions'[i].SlotID = ParkingSessions[i].SlotID
             /\ ParkingSessions'[i].EntryTime = ParkingSessions[i].EntryTime
       /\ \A v, w \in 1..Len(Vehicles') :
             Vehicles'[v] = Vehicles'[w] => v = w
       /\ \A p \in Plates :
             (/\ CompletedOfPlate(p) # {}
              /\ ActiveOfPlate(p) = {}
              /\ handle_entry(p)
              /\ outcome'.msg = "Welcome") =>
                 /\ Vehicles' = Vehicles
                 /\ Len(ParkingSessions') = Len(ParkingSessions) + 1
                 /\ \A i \in Sessions : ParkingSessions'[i] = ParkingSessions[i]
                 /\ \A i \in CompletedOfPlate(p) :
                       ParkingSessions'[Len(ParkingSessions')].VehicleID =
                           ParkingSessions[i].VehicleID]_vars

\* a plate is parked again after an earlier stay: its Completed session
\* and its new Active session share the plate's only Vehicles row
C11_Witness ==
    \E p \in Plates :
        /\ Cardinality(VehiclesOfPlate(p)) = 1
        /\ \E i \in CompletedOfPlate(p), j \in ActiveOfPlate(p) :
              /\ i < j
              /\ ParkingSessions[i].VehicleID = ParkingSessions[j].VehicleID

\* the session row that the last insert created
LastSession(sessions) == sessions[Len(sessions)]

\* C13: a successful entry takes the Available slot with the smallest id.
\* Whenever an entry ends with the welcome message, the slot of the session
\* it created was Available before the entry and every slot with a smaller
\* id was Occupied.
C13_SmallestAvailableSlot ==
    [][\A p \in Plates :
          (handle_entry(p) /\ outcome'.msg = "Welcome") =>
              LET s == LastSession(ParkingSessions').SlotID IN
              /\ Len(ParkingSessions') = Len(ParkingSessions) + 1
              /\ s \in Slots
              /\ ParkingSlots[s] = "Available"
              /\ \A t \in Slots : t < s => ParkingSlots[t] = "Occupied"]_vars

\* an entry has just been given slot 2: slot 1 is taken by an earlier
\* session that is still Active
C13_Witness ==
    /\ outcome.msg = "Welcome"
    /\ ParkingSessions # <<>>
    /\ LastSession(ParkingSessions).SlotID = 2
    /\ LastSession(ParkingSessions).Status = "Active"
    /\ ActiveOnSlot(1) # {}

\* C14: what a successful entry changes.  An entry of a plate without an
\* Active session while a slot is Available appends exactly one session:
\* Active, without exit time and fee, on the chosen slot, for the plate's
\* vehicle, with the current time as entry time.  It turns exactly that
\* slot from Available to Occupied, appends a Vehicles row only when the
\* plate had none, and keeps every other session, slot and vehicle.
C14_EntryFrame ==
    [][\A p \in Plates :
          (/\ ActiveOfPlate(p) = {}
           /\ \E s \in Slots : ParkingSlots[s] = "Available"
           /\ handle_entry(p)) =>
              LET new == LastSession(ParkingSessions') IN
              /\ outcome'.msg = "Welcome"
              /\ Len(ParkingSessions') = Len(ParkingSessions) + 1
              /\ \A i \in Sessions : ParkingSessions'[i] = ParkingSessions[i]
              /\ new.Status = "Active"
              /\ new.ExitTime = NULL
              /\ new.Fee = NULL
              /\ fromisoformat(new.EntryTime) = datetime_now(now)
              /\ new.VehicleID \in 1..Len(Vehicles')
              /\ Vehicles'[new.VehicleID] = p
              /\ new.SlotID \in Slots
              /\ ParkingSlots[new.SlotID] = "Available"
              /\ ParkingSlots'[new.SlotID] = "Occupied"
              /\ Len(ParkingSlots') = Len(ParkingSlots)
              /\ \A t \in Slots \ {new.SlotID} : ParkingSlots'[t] = ParkingSlots[t]
              /\ IF VehiclesOfPlate(p) = {}
                 THEN Vehicles' = Append(Vehicles, p)
                 ELSE Vehicles' = Vehicles]_vars

\* an entry of a plate seen for the first time has just succeeded while
\* another vehicle stays parked on the other slot
C14_Witness ==
    /\ outcome.msg = "Welcome"
    /\ Len(ParkingSessions) >= 2
    /\ LastSession(ParkingSessions).Status = "Active"
    /\ PlateOf(Len(ParkingSessions)) = outcome.plate
    /\ LastSession(ParkingSessions).VehicleID = Len(Vehicles)
    /\ \E i \in Sessions :
          /\ i < Len(ParkingSessions)
          /\ ParkingSessions[i].Status = "Active"
          /\ ParkingSessions[i].SlotID # LastSession(ParkingSessions).SlotID

\* C15: what a confirmed exit changes.  When the operator confirms the
\* payment for a plate with an Active session, that session becomes
\* Completed with the current time as exit time and the fee computed from
\* its entry time and the current time; its vehicle, slot and entry time
\* stay; exactly the slot recorded in it becomes Available; every other
\* session, every other slot and all vehicles stay as they were.
C15_ExitFrame ==
    [][\A p \in Plates :
          (ActiveOfPlate(p) # {} /\ handle_exit(p, TRUE)) =>
              \E i \in ActiveOfPlate(p) :
                  LET old == ParkingSessions[i]
                      new == ParkingSessions'[i]
                  IN
                  /\ outcome'.msg = "PaymentConfirmed"
                  /\ Len(ParkingSessions') = Len(ParkingSessions)
                  /\ new.Status = "Completed"
                  /\ new.ExitTime # NULL
                  /\ fromisoformat(new.ExitTime[1]) = datetime_now(now)
                  /\ new.Fee =
                        Some(Fee(timedelta_sub(datetime_now(now),
                                               fromisoformat(old.EntryTime))))
                  /\ new.VehicleID = old.VehicleID
                  /\ new.SlotID = old.SlotID
                  /\ new.EntryTime = old.EntryTime
                  /\ \A j \in Sessions \ {i} :
                        ParkingSessions'[j] = ParkingSessions[j]
                  /\ Len(ParkingSlots') = Len(ParkingSlots)
                  /\ ParkingSlots'[old.SlotID] = "Available"
                  /\ \A t \in Slots \ {old.SlotID} :
                        ParkingSlots'[t] = ParkingSlots[t]
                  /\ Vehicles' = Vehicles]_vars

\* a payment has just been confirmed while another vehicle stays parked:
\* the leaving plate's session is Completed, its slot is Available, the
\* other session is Active on its Occupied slot
C15_Witness ==
    /\ outcome.msg = "PaymentConfirmed"
    /\ \E i \in CompletedOfPlate(outcome.plate) :
          /\ ParkingSlots[ParkingSessions[i].SlotID] = "Available"
          /\ ParkingSessions[i].Fee # NULL
          /\ ParkingSessions[i].Fee[1] > 0
    /\ \E j \in Sessions :
          /\ ParkingSessions[j].Status = "Active"
          /\ ParkingSlots[ParkingSessions[j].SlotID] = "Occupied"

\* C16: Completed is terminal.  A session that is Completed is left as it
\* is by every later step: its status, slot, vehicle, entry time, exit time
\* and fee never change, so no session goes from Completed back to Active.
C16_CompletedIsTerminal ==
    [][\A i \in Sessions :
          ParkingSessions[i].Status = "Completed" =>
              /\ i \in 1..Len(ParkingSessions')
              /\ ParkingSessions'[i] = ParkingSessions[i]]_vars

\* a plate with a Completed session has gone through a later stay and a
\* later confirmed exit at another time: the earlier session has kept its
\* exit time
C16_Witness ==
    \E p \in Plates :
        \E i, j \in CompletedOfPlate(p) :
            /\ i < j
            /\ ParkingSessions[i].ExitTime # ParkingSessions[j].ExitTime

\* the slots that two or more Active sessions reference
DoubleBooked == {s \in Slots : Cardinality(ActiveOnSlot(s)) >= 2}

\* the slots that are Available although an Active session references them
Unmarked == {s \in Slots : ParkingSlots[s] = "Available" /\ ActiveOnSlot(s) # {}}

\* C12: an entry that is not atomic double-books a slot.  (a) When the
\* entry under way on terminal B inserts its session after another entry
\* has taken the slot it found, the slot is referenced by two Active
\* sessions.  (b) When terminal B was stopped between its insert and its
\* slot update, the slot is left Available with an Active session on it,
\* and an entry of a plate that is not parked which finds that slot as the
\* smallest Available one succeeds and makes it referenced by two Active
\* sessions.
C12_NonAtomicEntryDoubleBooks ==
    [][/\ (EntryInsertSession("B") /\ ActiveOnSlot(calls["B"].slot_id) # {}) =>
              calls["B"].slot_id \in DoubleBooked'
       /\ \A p \in Plates, s \in Unmarked :
             (/\ calls["B"].pc = "idle"
              /\ ActiveOfPlate(p) = {}
              /\ \A t \in Slots : t < s => ParkingSlots[t] = "Occupied"
              /\ handle_entry(p)) =>
                 /\ outcome'.msg = "Welcome"
                 /\ s \in DoubleBooked']_vars

\* terminal B has inserted its session and not yet updated the slot, which
\* an entry of terminal A has taken in the meantime: two Active sessions
\* of two plates reference the slot
C12_Witness ==
    \E s \in DoubleBooked :
        /\ calls["B"].pc = "update_slot"
        /\ calls["B"].slot_id = s
        /\ ParkingSlots[s] = "Occupied"
        /\ \E i, j \in ActiveOnSlot(s) : PlateOf(i) # PlateOf(j)

\* C17: the stored fee matches the stored times.  With a clock that only
\* moves forward, also while the "Payment Due" dialog is open, every
\* Completed session has an exit time and a fee, the fee is the rounded
\* product of the rate and the time from the stored entry time to the
\* stored exit time, and the stored exit time is not before the stored
\* entry time.
C17_FeeMatchesStoredTimes ==
    \A i \in Completed :
        /\ ParkingSessions[i].ExitTime # NULL
        /\ ParkingSessions[i].Fee # NULL
        /\ ParkingSessions[i].Fee[1] =
              Fee(timedelta_sub(fromisoformat(ParkingSessions[i].ExitTime[1]),
                                fromisoformat(ParkingSessions[i].EntryTime)))
        /\ ElapsedMicros(i) >= 0

\* the payment has just been confirmed in a dialog that was opened at an
\* earlier clock reading: the session carries the time read before the
\* dialog
C17_Witness ==
    /\ calls["A"].pc = "update_slot"
    /\ calls["A"].op = "exit"
    /\ calls["A"].exit_time # Some(datetime_now(now))
    /\ calls["A"].session_id \in Completed
    /\ ParkingSessions[calls["A"].session_id].ExitTime =
          Some(isoformat(calls["A"].exit_time[1]))

\* slot s is Occupied, no Active session references it and no handler
\* that is under way holds it
Orphaned(s) ==
    /\ ParkingSlots[s] = "Occupied"
    /\ ActiveOnSlot(s) = {}
    /\ \A h \in Handlers : calls[h].pc = "idle" \/ calls[h].slot_id # s

\* C18: an exit interrupted between its two updates loses the slot for
\* good.  When the process is stopped after the session was set to
\* Completed and before the slot was updated, the slot is Occupied and no
\* Active session references it; and from a state in which a slot is
\* Occupied, referenced by no Active session and held by no handler under
\* way, no step of an entry or an exit changes that.
C18_InterruptedExitLosesSlot ==
    [][\A s \in Slots :
          /\ (ExitInterrupted("A") /\ calls["A"].slot_id = s) =>
                 /\ CompletedOnSlot(s)' # {}
                 /\ Orphaned(s)'
          /\ Orphaned(s) => Orphaned(s)']_vars

\* slot 1 was lost by an interrupted exit; since then slot 2 has served a
\* whole stay and a further entry, and slot 1 is still Occupied
C18_Witness ==
    /\ Orphaned(1)
    /\ CompletedOnSlot(1) # {}
    /\ CompletedOnSlot(2) # {}
    /\ ActiveOnSlot(2) # {}
    /\ calls["A"].pc = "idle"

\* the Active sessions of the vehicle row v
ActiveOfVehicle(v) ==
    {i \in Sessions : /\ ParkingSessions[i].VehicleID = v
                      /\ ParkingSessions[i].Status = "Active"}

\* terminal B is in an entry of plate p, past the already-parked check and
\* before its insert of the session
PastCheck(p) ==
    /\ calls["B"].op = "entry"
    /\ calls["B"].plate_number = p
    /\ calls["B"].pc \in {"find_slot", "select_vehicle", "insert_vehicle",
                          "insert_session"}

\* C19: two interleaved entries of one plate both get past the
\* already-parked check.  While the entry of terminal B for a plate is
\* between its check and its insert, an entry of the same plate on
\* terminal A is not turned away as already parked as long as no session
\* of the plate is Active, and it succeeds when a slot is Available; and
\* when terminal B then inserts its session for a vehicle that has got an
\* Active session in the meantime, the vehicle has two Active sessions.
C19_BothEntriesPassTheCheck ==
    [][/\ \A p \in Plates :
             (PastCheck(p) /\ ActiveOfPlate(p) = {} /\ handle_entry(p)) =>
                 /\ outcome'.msg # "AlreadyParked"
                 /\ (\E s \in Slots : ParkingSlots[s] = "Available") =>
                        /\ outcome'.msg = "Welcome"
                        /\ ActiveOfPlate(p)' # {}
       /\ \A v \in 1..Len(Vehicles) :
             (/\ EntryInsertSession("B")
              /\ calls["B"].vehicle_id = v
              /\ ActiveOfVehicle(v) # {}) =>
                 Cardinality(ActiveOfVehicle(v)') >= 2]_vars

\* a plate that has a Vehicles row and a Completed stay was entered on
\* both terminals at once: its vehicle has two Active sessions, the
\* second one inserted by terminal B
C19_Witness ==
    \E p \in Plates : \E v \in VehiclesOfPlate(p) :
        /\ \E i \in CompletedOfPlate(p) : ParkingSessions[i].VehicleID = v
        /\ Cardinality(ActiveOfVehicle(v)) = 2
        /\ calls["B"].pc = "update_slot"
        /\ calls["B"].plate_number = p
        /\ calls["B"].session_id \in ActiveOfVehicle(v)

\* the slots that are Available
AvailableSlots == {s \in Slots : ParkingSlots[s] = "Available"}

\* C20: a full lot can always be emptied and refilled.  In every state an
\* exit with confirmed payment is possible for each plate that has an
\* Active session, and it leaves the plate without Active session, the
\* session Completed.  When every slot is Occupied, such an exit leaves
\* exactly the slot of the completed session Available; and while exactly
\* one slot is Available, an entry of a plate that is not parked succeeds,
\* is given that slot and fills the lot again.
C20_FullLotRecovers ==
    /\ [](\A p \in Plates :
             ActiveOfPlate(p) # {} => ENABLED handle_exit(p, TRUE))
    /\ [][/\ \A p \in Plates :
                (ActiveOfPlate(p) # {} /\ handle_exit(p, TRUE)) =>
                    /\ outcome'.msg = "PaymentConfirmed"
                    /\ ActiveOfPlate(p)' = {}
                    /\ \A i \in ActiveOfPlate(p) :
                          /\ ParkingSessions'[i].Status = "Completed"
                          /\ AllOccupied =>
                                AvailableSlots' = {ParkingSessions[i].SlotID}
          /\ \A q \in Plates, s \in Slots :
                (/\ AvailableSlots = {s}
                 /\ ActiveOfPlate(q) = {}
                 /\ handle_entry(q)) =>
                    /\ outcome'.msg = "Welcome"
                    /\ LastSession(ParkingSessions').SlotID = s
                    /\ LastSession(ParkingSessions').Status = "Active"
                    /\ AllOccupied']_vars

\* the lot was full, a vehicle left and paid, and the next entry has been
\* given its slot: the lot is full again and the newest session is on the
\* slot of a Completed one
C20_Witness ==
    /\ AllOccupied
    /\ outcome.msg = "Welcome"
    /\ Len(ParkingSessions) = TOTAL_SLOTS + 1
    /\ \A s \in Slots : Cardinality(ActiveOnSlot(s)) = 1
    /\ LastSession(ParkingSessions).Status = "Active"
    /\ \E i \in Completed :
          /\ ParkingSessions[i].SlotID = LastSession(ParkingSessions).SlotID
          /\ PlateOf(i) # outcome.plate

=============================================================================
